---- MODULE Spec2Model ----
(***************************************************************************)
(* The research orchestration workflow of app/orchestration: the shared    *)
(* GraphState, the five node functions of graph.py, the routing functions, *)
(* and the two engines that sequence them (the LangGraph graph of          *)
(* build_graph/run_graph and the Prefect flow research_flow), together     *)
(* with the operator's pause and approval flag files.                      *)
(*                                                                         *)
(* Floats are scaled integers: scores and thresholds in tenths (0.9 is 9), *)
(* risk metrics in hundredths (0.2 is 20).                                 *)
(***************************************************************************)
EXTENDS Integers, Sequences, FiniteSets, TLC

\* ------------------------------------------------------------------ bounds
\* Largest MAX_RETRIES the environment configures in the model.
MaxRetriesBound == 2

\* ----------------------------------------------------------- configuration
\* Python's None for failure_reason.
Null == "None"

Engines == {"langgraph", "prefect"}
Hypotheses == {"H"}

\* PC_THRESHOLD values the environment may configure, in tenths (default 0.7).
PCThresholdValues == {0, 7}

\* Content of the approval flag file after strip().lower(); "absent" is no file.
ApprovalValues == {"absent", "approve", "reject", "later"}

\* Exact failure reasons assigned by the nodes.
PausedByOperator == "Paused by operator."
MaxRetriesExceeded == "Max retries exceeded after critic veto."
RiskVetoed == "Risk manager vetoed based on limits."
RejectedByHuman == "Rejected by human approver."

\* A Python dict is a function from its keys; d.get(k, default).
EmptyDict == [k \in {} |-> TRUE]
Get(d, k, default) == IF k \in DOMAIN d THEN d[k] ELSE default

VARIABLES
    engine,          \* which entry point runs: run_graph or research_flow
    PC_THRESHOLD,    \* graph.PC_THRESHOLD, read from the environment at import
    state,           \* the GraphState threaded through the nodes
    current,         \* the node the engine is at
    pc,              \* position: enter | body | edge | log | exit | returned | raised
    pauseFlag,       \* os.path.exists(PAUSE_FLAG)
    approvalFlag,    \* content of APPROVAL_FLAG
    decisions,       \* the records DecisionLogger has appended to decisions.log
    exception,       \* the error the entry point raised, Null if none
    decision,        \* history: the routing decision that ended the run
    trace,           \* history: the node bodies executed, in order
    pauseObservedAt, \* history: node whose pause check first saw the signal
    sincePause,      \* history: node bodies completed since the flag was last set
    vetoes,          \* history: Critic reports issued with veto = true
    approvalRead,    \* history: what the Approval body read from the flag file
    resumed,         \* history: the run was re-entered at the Approval stage
    probe,           \* a component called on its own: its inputs, position and results
    first            \* history: how the previous run of the same process ended

vars == <<engine, PC_THRESHOLD, state, current, pc, pauseFlag, approvalFlag,
          decisions, exception, decision, trace, pauseObservedAt, sincePause,
          vetoes, approvalRead, resumed, probe, first>>

\* Longest prediction vector and longest list of scenario predictions drawn.
MaxVecLen == 2
MaxScenarioCount == 2

\* Largest CounterfactualConfig.scenarios drawn for a generator called on
\* its own.
MaxGenScenarios == 2

\* No run has ended before this one.
NoFirst == [engine |-> Null]

\* No policy is being called on its own.
NoProbe == [agent |-> Null, allowed |-> {}, ip |-> 0, events |-> <<>>, raised |-> FALSE]

\* -------------------------------------------------------------- GraphState
GraphState(hypothesis, max_retries) ==
    [ hypothesis |-> hypothesis,
      messages |-> <<>>,
      market_data |-> EmptyDict,
      code_snippet |-> "",
      critique_score |-> 0,
      human_approval |-> FALSE,
      awaiting_approval |-> FALSE,
      plan |-> <<>>,
      executor_artifacts |-> EmptyDict,
      critic_report |-> EmptyDict,
      compliance_report |-> EmptyDict,
      risk_report |-> EmptyDict,
      retry_count |-> 0,
      max_retries |-> max_retries,
      pause_requested |-> FALSE,
      confidence |-> 0,
      logs |-> <<>>,
      failure_reason |-> Null,
      active_node |-> "" ]

\* The trace keeps only its latest entry.
log_keep_last(s, message) == [s EXCEPT !.logs = <<message>>]

log(s, message) == [s EXCEPT !.logs = Append(@, message)]

say(s, role, content) ==
    [s EXCEPT !.messages = Append(@, [role |-> role, content |-> content])]

\* ------------------------------------------------------------------- tools
\* Close-price series yfinance may return for the request (non-empty, positive).
PriceSeries == {<<100>>, <<100, 80>>}

\* Outcome of yf.download inside fetch_market_data: a series, or the empty frame,
\* on which the tool raises ToolSafetyError.
FetchOutcomes == PriceSeries \cup {<<>>}

ALL_TOOLS == {"fetch_market_data", "clean_data", "run_analysis",
              "check_restricted_symbols", "check_wash_sale_patterns"}

allowed_tools(agent) ==
    CASE agent = "Planner" -> {}
      [] agent = "Executor" -> {"clean_data", "run_analysis", "fetch_market_data"}
      [] agent = "Critic" -> {}
      [] agent = "ComplianceOfficer" -> {"check_restricted_symbols", "check_wash_sale_patterns"}
      [] agent = "RiskManager" -> {}

\* BaseAgent.validate_tool_access: TRUE when the call is allowed, FALSE when it
\* raises ToolSafetyError.
validate_tool_access(agent, tool_name) == tool_name \in allowed_tools(agent)

fetch_market_data(params, outcome) ==
    [ symbol |-> Get(params, "symbol", "AAPL"),
      start |-> Get(params, "start", "2022-01-01"),
      end |-> Get(params, "end", "2022-12-31"),
      interval |-> Get(params, "interval", "1d"),
      ohlcv |-> outcome ]

clean_data(raw) ==
    [ cleaned |-> raw,
      dataframe |-> Get(raw, "ohlcv", <<>>),
      notes |-> "Basic normalization applied" ]

Max(a, b) == IF a >= b THEN a ELSE b
Min(a, b) == IF a <= b THEN a ELSE b

\* prices.cummax() at position i.
RECURSIVE cummax(_, _)
cummax(prices, i) == IF i = 1 THEN prices[1] ELSE Max(prices[i], cummax(prices, i - 1))

\* (prices / prices.cummax() - 1).min(), in hundredths.
RECURSIVE drawdown_min(_, _)
drawdown_min(prices, i) ==
    LET here == (100 * prices[i]) \div cummax(prices, i) - 100
    IN IF i = 1 THEN here ELSE Min(here, drawdown_min(prices, i - 1))

\* rolling(14) leaves the RSI undefined on the short series of the model, so no
\* row yields a signal.
run_analysis(cleaned) ==
    LET df == Get(cleaned, "dataframe", <<>>)
    IN IF Len(df) = 0
       THEN [ analysis |-> "No data", inputs |-> cleaned ]
       ELSE [ analysis |-> [rsi_last |-> "nan", signal_count |-> 0],
              inputs |-> cleaned,
              signals |-> <<>>,
              risk_metrics |-> [max_drawdown |-> drawdown_min(df, Len(df)),
                                exposure |-> 100] ]

check_restricted_symbols(symbols) ==
    LET restricted == {}
        violations == SelectSeq(symbols, LAMBDA s : s \in restricted)
    IN [ checked_symbols |-> symbols,
         restricted |-> restricted,
         violations |-> violations,
         status |-> IF violations = <<>> THEN "pass" ELSE "fail" ]

check_wash_sale_patterns(trades) ==
    [ checked_trades |-> trades,
      status |-> IF trades = <<>> THEN "pass" ELSE "fail",
      note |-> "Research-only system should not include trade data." ]

\* ------------------------------------------------------------------ agents
PlannerAgent_plan(hypothesis) ==
    << "Restate hypothesis: " \o hypothesis,
       "Identify required datasets and constraints",
       "Outline feature engineering steps",
       "Define evaluation protocol and bias checks" >>

\* The generated code text, by the two features the Critic looks for: it holds
\* neither "shift(-" nor "future".
CodeSnippet == [text |-> "run_research", has_negative_shift |-> FALSE, has_future |-> FALSE]
NoCode == [text |-> "", has_negative_shift |-> FALSE, has_future |-> FALSE]

\* ExecutorAgent.execute: [raised |-> TRUE, ...] when a tool call raises
\* ToolSafetyError, else the artifacts.
ExecutorAgent_execute(plan, outcome) ==
    LET market_request == [symbol |-> "AAPL", start |-> "2022-01-01", end |-> "2022-12-31"]
        market_data == fetch_market_data(market_request, outcome)
        cleaned == clean_data(market_data)
        analysis == run_analysis(cleaned)
    IN IF ~validate_tool_access("Executor", "fetch_market_data")
       THEN [raised |-> TRUE, error |-> "Tool 'fetch_market_data' not allowed for agent Executor."]
       ELSE IF Len(outcome) = 0
       THEN [raised |-> TRUE, error |-> "No market data returned from yfinance."]
       ELSE IF ~validate_tool_access("Executor", "clean_data")
       THEN [raised |-> TRUE, error |-> "Tool 'clean_data' not allowed for agent Executor."]
       ELSE IF ~validate_tool_access("Executor", "run_analysis")
       THEN [raised |-> TRUE, error |-> "Tool 'run_analysis' not allowed for agent Executor."]
       ELSE [raised |-> FALSE,
             artifacts |->
               [ plan |-> plan,
                 code_snippet |-> CodeSnippet,
                 market_data_request |-> market_request,
                 market_data |-> [symbol |-> market_data.symbol,
                                  ohlcv |-> market_data.ohlcv,
                                  signals |-> Get(analysis, "signals", <<>>)],
                 analysis |-> Get(analysis, "analysis", EmptyDict),
                 risk_metrics |-> Get(analysis, "risk_metrics", EmptyDict) ]]

\* CriticAgent.evaluate, scores in tenths.
CriticAgent_evaluate(artifacts) ==
    LET code_snippet == Get(artifacts, "code_snippet", NoCode)
        look_ahead_risk == IF code_snippet.has_negative_shift \/ code_snippet.has_future
                           THEN "high" ELSE "low"
        critique_score == IF look_ahead_risk = "low" THEN 9 ELSE 4
        veto == critique_score < 8
    IN [ look_ahead_bias |-> look_ahead_risk,
         overfitting |-> "unknown",
         leakage |-> "unknown",
         reproducibility |-> "unknown",
         veto |-> veto,
         confidence |-> critique_score,
         critique_score |-> critique_score,
         notes |-> "Heuristic review completed." ]

\* ComplianceOfficerAgent.review; both tools it calls are on its allow-list.
ComplianceOfficerAgent_review(symbols, trades) ==
    LET symbol_report == check_restricted_symbols(symbols)
        wash_report == check_wash_sale_patterns(trades)
    IN [ symbol_report |-> symbol_report,
         wash_sale_report |-> wash_report,
         status |-> IF symbol_report.status = "pass" /\ wash_report.status = "pass"
                    THEN "pass" ELSE "fail" ]

\* A metric exactly at its limit is reported as a violation.
RiskManagerAgent_evaluate_inclusive(artifacts) ==
    LET risk_metrics == Get(artifacts, "risk_metrics", EmptyDict)
        max_drawdown == Get(risk_metrics, "max_drawdown", 0)
        exposure == Get(risk_metrics, "exposure", 0)
        limits == [max_drawdown |-> 20, exposure |-> 100]
        violations == (IF max_drawdown >= limits.max_drawdown THEN <<"max_drawdown">> ELSE <<>>)
                      \o (IF exposure >= limits.exposure THEN <<"exposure">> ELSE <<>>)
    IN [ status |-> IF violations = <<>> THEN "pass" ELSE "fail",
         violations |-> violations,
         metrics |-> [max_drawdown |-> max_drawdown, exposure |-> exposure],
         limits |-> limits ]

\* RiskManagerAgent.evaluate, metrics and limits in hundredths.
RiskManagerAgent_evaluate(artifacts) ==
    LET risk_metrics == Get(artifacts, "risk_metrics", EmptyDict)
        max_drawdown == Get(risk_metrics, "max_drawdown", 0)
        exposure == Get(risk_metrics, "exposure", 0)
        limits == [max_drawdown |-> 20, exposure |-> 100]
        violations == (IF max_drawdown > limits.max_drawdown THEN <<"max_drawdown">> ELSE <<>>)
                      \o (IF exposure > limits.exposure THEN <<"exposure">> ELSE <<>>)
    IN [ status |-> IF violations = <<>> THEN "pass" ELSE "fail",
         violations |-> violations,
         metrics |-> [max_drawdown |-> max_drawdown, exposure |-> exposure],
         limits |-> limits ]

\* -------------------------------------------------------------- validation
\* CounterfactualConfig.scenarios.
Scenarios == 50

\* generate_counterfactuals on the Critic's stub dataset {}: one scenario per
\* index, each with empty price, date and sentiment arrays.
generate_counterfactuals(dataset) ==
    [i \in 1..Scenarios |->
        [ prices |-> Get(dataset, "prices", <<>>),
          earnings_dates |-> Get(dataset, "earnings_dates", <<>>),
          sentiment |-> Get(dataset, "sentiment", <<>>),
          scenario_id |-> i - 1 ]]

\* Zero is given the sign of a positive number.
sign_binary(x) == IF x < 0 THEN -1 ELSE 1

sign(x) == IF x < 0 THEN -1 ELSE IF x > 0 THEN 1 ELSE 0

\* Number of positions of cf whose sign equals the baseline's.
sign_matches(baseline, cf) ==
    Cardinality({i \in 1..Len(baseline) : sign(cf[i]) = sign(baseline[i])})

RECURSIVE sum_matches(_, _, _)
sum_matches(baseline, cfs, k) ==
    IF k = 0 THEN 0
    ELSE sum_matches(baseline, cfs, k - 1)
         + (IF Len(cfs[k]) # Len(baseline) THEN 0 ELSE sign_matches(baseline, cfs[k]))

\* Empty input is scored as full agreement.
prediction_consistency_empty_agrees(baseline, counterfactual_predictions) ==
    IF Len(baseline) = 0 \/ Len(counterfactual_predictions) = 0
    THEN [num |-> 1, den |-> 1]
    ELSE [num |-> sum_matches(baseline, counterfactual_predictions,
                              Len(counterfactual_predictions)),
          den |-> Len(baseline) * Len(counterfactual_predictions)]

\* prediction_consistency as the exact fraction num/den.
prediction_consistency(baseline, counterfactual_predictions) ==
    IF Len(baseline) = 0 \/ Len(counterfactual_predictions) = 0
    THEN [num |-> 0, den |-> 1]
    ELSE [num |-> sum_matches(baseline, counterfactual_predictions,
                              Len(counterfactual_predictions)),
          den |-> Len(baseline) * Len(counterfactual_predictions)]

build_consistency_report(baseline, counterfactual_predictions) ==
    [prediction_consistency |-> prediction_consistency(baseline, counterfactual_predictions)]

\* q < threshold, threshold in tenths.
below(q, threshold) == 10 * q.num < threshold * q.den

\* ------------------------------------------------------------------- nodes
Nodes == {"planner", "executor", "critic", "risk", "approval"}

\* The check writes failure_reason on both paths, clearing it when not paused.
ensure_not_paused_resets(s, flag) ==
    IF s.pause_requested \/ flag
    THEN [s EXCEPT !.failure_reason = PausedByOperator]
    ELSE [s EXCEPT !.failure_reason = Null]

\* The check looks at pause_requested only, never at the flag file.
ensure_not_paused_ignores_flag(s, flag) ==
    IF s.pause_requested
    THEN [s EXCEPT !.failure_reason = PausedByOperator]
    ELSE s

ensure_not_paused(s, flag) ==
    IF s.pause_requested \/ flag
    THEN [s EXCEPT !.failure_reason = PausedByOperator]
    ELSE s

\* The statements of planner_node after the pause check.
planner_body(s) ==
    LET s1 == [s EXCEPT !.active_node = "planner",
                        !.plan = PlannerAgent_plan(s.hypothesis)]
    IN log(say(s1, "planner", "Plan created."), "Planner produced research plan")

\* The statements of executor_node after the pause check, given the artifacts
\* EXECUTOR.execute returned.
executor_body(s, artifacts) ==
    LET s1 == [s EXCEPT !.active_node = "executor",
                        !.executor_artifacts = artifacts,
                        !.code_snippet = Get(artifacts, "code_snippet", NoCode),
                        !.market_data = Get(artifacts, "market_data", EmptyDict)]
        s2 == log(say(s1, "executor", "Code generated (not executed)."),
                  "Executor produced analysis artifacts")
        s3 == [s2 EXCEPT !.compliance_report = ComplianceOfficerAgent_review(<<>>, <<>>)]
    IN log(s3, "Compliance review completed")

\* Off by one: the retry test admits retry_count = max_retries.
can_retry_inclusive(s) == s.retry_count <= s.max_retries

\* critic_node's test for another Executor round.
can_retry(s) == s.retry_count < s.max_retries

\* The consistency test assigns the veto instead of only raising it.
critic_body_pc_overrides(s, threshold) ==
    LET baseline_predictions == Get(s.executor_artifacts, "predictions", <<>>)
        counterfactuals == generate_counterfactuals(EmptyDict)
        cf_predictions == [i \in 1..Len(counterfactuals) |-> <<>>]
        consistency_report == build_consistency_report(baseline_predictions, cf_predictions)
        evaluated == CriticAgent_evaluate(s.executor_artifacts)
        report == [counterfactual |-> consistency_report] @@ evaluated
        forced == below(consistency_report.prediction_consistency, threshold)
        final == IF forced
                 THEN [report EXCEPT !.veto = TRUE,
                                     !.notes = @ \o " PC below threshold."]
                 ELSE [report EXCEPT !.veto = FALSE]
        s1 == [s EXCEPT !.active_node = "critic",
                        !.critic_report = final,
                        !.confidence = Get(report, "confidence", 0),
                        !.critique_score = Get(report, "critique_score",
                                               Get(report, "confidence", 0))]
        s2 == say(s1, "critic", "Critic review complete.")
        s3 == IF Get(final, "veto", FALSE)
              THEN IF can_retry(s2)
                   THEN log([s2 EXCEPT !.retry_count = @ + 1],
                            "Critic vetoed; retrying executor")
                   ELSE [s2 EXCEPT !.failure_reason = MaxRetriesExceeded]
              ELSE s2
    IN log(s3, "Critic issued report")

\* The statements of critic_node after the pause check.
critic_body(s, threshold) ==
    LET baseline_predictions == Get(s.executor_artifacts, "predictions", <<>>)
        counterfactuals == generate_counterfactuals(EmptyDict)
        cf_predictions == [i \in 1..Len(counterfactuals) |-> <<>>]
        consistency_report == build_consistency_report(baseline_predictions, cf_predictions)
        evaluated == CriticAgent_evaluate(s.executor_artifacts)
        report == [counterfactual |-> consistency_report] @@ evaluated
        forced == below(consistency_report.prediction_consistency, threshold)
        final == IF forced
                 THEN [report EXCEPT !.veto = TRUE,
                                     !.notes = @ \o " PC below threshold."]
                 ELSE report
        s1 == [s EXCEPT !.active_node = "critic",
                        !.critic_report = final,
                        !.confidence = Get(report, "confidence", 0),
                        !.critique_score = Get(report, "critique_score",
                                               Get(report, "confidence", 0))]
        s2 == say(s1, "critic", "Critic review complete.")
        s3 == IF Get(final, "veto", FALSE)
              THEN IF can_retry(s2)
                   THEN log([s2 EXCEPT !.retry_count = @ + 1],
                            "Critic vetoed; retrying executor")
                   ELSE [s2 EXCEPT !.failure_reason = MaxRetriesExceeded]
              ELSE s2
    IN log(s3, "Critic issued report")

\* The report is stored but a failing status sets no failure_reason.
risk_manager_body_report_only(s) ==
    LET s1 == [s EXCEPT !.active_node = "risk_manager",
                        !.risk_report = RiskManagerAgent_evaluate(s.executor_artifacts)]
    IN log(say(s1, "risk_manager", "Risk checks complete."),
           "Risk manager issued report")

\* The statements of risk_manager_node after the pause check.
risk_manager_body(s) ==
    LET s1 == [s EXCEPT !.active_node = "risk_manager",
                        !.risk_report = RiskManagerAgent_evaluate(s.executor_artifacts)]
        s2 == log(say(s1, "risk_manager", "Risk checks complete."),
                  "Risk manager issued report")
    IN IF Get(s2.risk_report, "status", Null) # "pass"
       THEN [s2 EXCEPT !.failure_reason = RiskVetoed]
       ELSE s2

\* The branch for a missing decision logs but does not request the pause.
human_approval_body_no_pause(s, approval_value) ==
    LET s1 == [s EXCEPT !.active_node = "human_approval", !.awaiting_approval = TRUE]
    IN IF approval_value = "approve"
       THEN log(say([s1 EXCEPT !.human_approval = TRUE, !.awaiting_approval = FALSE],
                    "human", "Approved."),
                "Human approval granted")
       ELSE IF approval_value = "reject"
       THEN log(say([s1 EXCEPT !.human_approval = FALSE, !.awaiting_approval = FALSE,
                               !.failure_reason = RejectedByHuman],
                    "human", "Rejected."),
                "Human approval rejected")
       ELSE log(s1, "Awaiting human approval")

\* The reject branch records no failure_reason.
human_approval_body_reject_silent(s, approval_value) ==
    LET s1 == [s EXCEPT !.active_node = "human_approval", !.awaiting_approval = TRUE]
    IN IF approval_value = "approve"
       THEN log(say([s1 EXCEPT !.human_approval = TRUE, !.awaiting_approval = FALSE],
                    "human", "Approved."),
                "Human approval granted")
       ELSE IF approval_value = "reject"
       THEN log(say([s1 EXCEPT !.human_approval = FALSE, !.awaiting_approval = FALSE],
                    "human", "Rejected."),
                "Human approval rejected")
       ELSE log([s1 EXCEPT !.pause_requested = TRUE], "Awaiting human approval")

\* The statements of human_approval_node after the pause check, given the content
\* read from the approval flag file.
human_approval_body(s, approval_value) ==
    LET s1 == [s EXCEPT !.active_node = "human_approval", !.awaiting_approval = TRUE]
    IN IF approval_value = "approve"
       THEN log(say([s1 EXCEPT !.human_approval = TRUE, !.awaiting_approval = FALSE],
                    "human", "Approved."),
                "Human approval granted")
       ELSE IF approval_value = "reject"
       THEN log(say([s1 EXCEPT !.human_approval = FALSE, !.awaiting_approval = FALSE,
                               !.failure_reason = RejectedByHuman],
                    "human", "Rejected."),
                "Human approval rejected")
       ELSE log([s1 EXCEPT !.pause_requested = TRUE], "Awaiting human approval")

\* ----------------------------------------------------------------- routing
\* The veto is looked at before failure_reason.
route_after_critic_veto_first(s) ==
    IF s.pause_requested THEN "paused"
    ELSE IF Get(s.critic_report, "veto", TRUE) THEN "executor"
    ELSE IF s.failure_reason # Null THEN "fail"
    ELSE "risk"

route_after_critic(s) ==
    IF s.pause_requested THEN "paused"
    ELSE IF s.failure_reason # Null THEN "fail"
    ELSE IF Get(s.critic_report, "veto", TRUE) THEN "executor"
    ELSE "risk"

route_after_risk(s) ==
    IF s.pause_requested THEN "paused"
    ELSE IF s.failure_reason # Null THEN "fail"
    ELSE "approval"

route_after_human(s) ==
    IF s.pause_requested THEN "paused"
    ELSE IF s.failure_reason # Null THEN "fail"
    ELSE IF s.human_approval THEN "done"
    ELSE "paused"

\* Routing labels that end a run.
TerminalRoutes == {"done", "fail", "paused"}

\* build_graph: the edge taken after node n returned s. to = "END" ends the graph;
\* route is the routing function's answer ("" on an unconditional edge).
graph_edges(n, s) ==
    CASE n = "planner" -> [route |-> "", to |-> "executor"]
      [] n = "executor" -> [route |-> "", to |-> "critic"]
      [] n = "critic" ->
            LET r == route_after_critic(s)
            IN [route |-> r,
                to |-> IF r = "executor" THEN "executor"
                       ELSE IF r = "risk" THEN "risk" ELSE "END"]
      [] n = "risk" ->
            LET r == route_after_risk(s)
            IN [route |-> r, to |-> IF r = "approval" THEN "approval" ELSE "END"]
      [] n = "approval" -> [route |-> route_after_human(s), to |-> "END"]

\* research_flow's loop: what follows task n returning s. A break on a set
\* failure_reason is the failed exit of the flow, recorded as route "fail".
flow_edges(n, s) ==
    IF s.failure_reason # Null THEN [route |-> "fail", to |-> "END"]
    ELSE CASE n = "planner" -> [route |-> "", to |-> "executor"]
           [] n = "executor" -> [route |-> "", to |-> "critic"]
           [] n = "critic" ->
                 LET r == route_after_critic(s)
                 IN [route |-> r,
                     to |-> IF r = "executor" THEN "planner"
                            ELSE IF r \in {"fail", "paused"} THEN "END" ELSE "risk"]
           [] n = "risk" ->
                 LET r == route_after_risk(s)
                 IN [route |-> r,
                     to |-> IF r \in {"fail", "paused"} THEN "END" ELSE "approval"]
           [] n = "approval" -> [route |-> route_after_human(s), to |-> "END"]

\* ------------------------------------------------------------------ actions
Halted == pc \in {"returned", "raised"}

\* Start of run_graph or research_flow: a fresh GraphState; run_graph appends
\* the user's message before invoking the graph.
Init ==
    /\ engine \in Engines
    /\ PC_THRESHOLD \in PCThresholdValues
    /\ \E h \in Hypotheses, m \in 0..MaxRetriesBound :
          state = IF engine = "langgraph"
                  THEN say(GraphState(h, m), "user", h)
                  ELSE GraphState(h, m)
    /\ current = "planner"
    /\ pc = "enter"
    /\ pauseFlag \in BOOLEAN
    /\ approvalFlag \in ApprovalValues
    /\ decisions = <<>>
    /\ exception = Null
    /\ decision = "none"
    /\ trace = <<>>
    /\ pauseObservedAt = ""
    /\ sincePause = 0
    /\ vetoes = 0
    /\ approvalRead = ""
    /\ resumed = FALSE
    /\ probe = NoProbe
    /\ first = NoFirst

\* The node lacks the early return on a set failure_reason.
node_entry_no_return(n) ==
    /\ pc = "enter"
    /\ current = n
    /\ state' = ensure_not_paused(state, pauseFlag)
    /\ pc' = "body"
    /\ pauseObservedAt' = IF pauseObservedAt = "" /\ (state.pause_requested \/ pauseFlag)
                          THEN n ELSE pauseObservedAt
    /\ UNCHANGED <<engine, PC_THRESHOLD, current, pauseFlag, approvalFlag, decisions,
                   exception, decision, trace, sincePause,
                   vetoes, approvalRead, resumed, probe, first>>

\* The first two statements of every node: the pause check, then the early
\* return when failure_reason is set.
node_entry(n) ==
    /\ pc = "enter"
    /\ current = n
    /\ state' = ensure_not_paused(state, pauseFlag)
    /\ pc' = IF state'.failure_reason # Null THEN "edge" ELSE "body"
    /\ pauseObservedAt' = IF pauseObservedAt = "" /\ (state.pause_requested \/ pauseFlag)
                          THEN n ELSE pauseObservedAt
    /\ UNCHANGED <<engine, PC_THRESHOLD, current, pauseFlag, approvalFlag, decisions,
                   exception, decision, trace, sincePause,
                   vetoes, approvalRead, resumed, probe, first>>

\* A node body ran to its return.
body_done(n) ==
    /\ pc' = "edge"
    /\ trace' = Append(trace, n)
    /\ sincePause' = IF pauseFlag THEN sincePause + 1 ELSE sincePause
    /\ vetoes' = IF n = "critic" /\ Get(state'.critic_report, "veto", FALSE)
                 THEN vetoes + 1 ELSE vetoes
    /\ approvalRead' = IF n = "approval" THEN approvalFlag ELSE approvalRead
    /\ UNCHANGED <<engine, PC_THRESHOLD, current, pauseFlag, approvalFlag, decisions,
                   exception, decision, pauseObservedAt, resumed, probe, first>>

planner_node ==
    \/ node_entry("planner")
    \/ /\ pc = "body"
       /\ current = "planner"
       /\ state' = planner_body(state)
       /\ body_done("planner")

executor_node ==
    \/ node_entry("executor")
    \/ /\ pc = "body"
       /\ current = "executor"
       /\ \E outcome \in FetchOutcomes :
             LET result == ExecutorAgent_execute(state.plan, outcome)
             IN IF result.raised
                THEN \* ToolSafetyError leaves the node, the engine and the entry point
                     /\ state' = [state EXCEPT !.active_node = "executor"]
                     /\ pc' = "raised"
                     /\ exception' = result.error
                     /\ UNCHANGED <<engine, PC_THRESHOLD, current, pauseFlag, approvalFlag,
                                    decisions, decision, trace, pauseObservedAt, sincePause,
                                    vetoes, approvalRead, resumed, probe, first>>
                ELSE /\ state' = executor_body(state, result.artifacts)
                     /\ body_done("executor")

\* A failing compliance report ends the run.
executor_body_reviewed_blocking(s, artifacts, symbols, trades) ==
    LET s1 == [s EXCEPT !.active_node = "executor",
                        !.executor_artifacts = artifacts,
                        !.code_snippet = Get(artifacts, "code_snippet", NoCode),
                        !.market_data = Get(artifacts, "market_data", EmptyDict)]
        s2 == log(say(s1, "executor", "Code generated (not executed)."),
                  "Executor produced analysis artifacts")
        s3 == [s2 EXCEPT !.compliance_report = ComplianceOfficerAgent_review(symbols, trades)]
        s4 == IF s3.compliance_report.status # "pass"
              THEN [s3 EXCEPT !.failure_reason = "Compliance review failed."]
              ELSE s3
    IN log(s4, "Compliance review completed")

\* The statements of executor_node after the pause check, with the symbols
\* and trades handed to COMPLIANCE.review left open.
executor_body_reviewed(s, artifacts, symbols, trades) ==
    LET s1 == [s EXCEPT !.active_node = "executor",
                        !.executor_artifacts = artifacts,
                        !.code_snippet = Get(artifacts, "code_snippet", NoCode),
                        !.market_data = Get(artifacts, "market_data", EmptyDict)]
        s2 == log(say(s1, "executor", "Code generated (not executed)."),
                  "Executor produced analysis artifacts")
        s3 == [s2 EXCEPT !.compliance_report = ComplianceOfficerAgent_review(symbols, trades)]
    IN log(s3, "Compliance review completed")

\* Symbol lists and trade lists a review can be given.
ReviewSymbols == {<<>>, <<"AAPL">>}

ReviewTrades == {<<>>, <<"buy AAPL">>}

\* executor_node around a Compliance review of arbitrary symbols and trades.
executor_node_reviewed ==
    /\ pc = "body"
    /\ current = "executor"
    /\ \E symbols \in ReviewSymbols, trades \in ReviewTrades :
          LET result == ExecutorAgent_execute(state.plan, <<100>>)
          IN state' = executor_body_reviewed(state, result.artifacts, symbols, trades)
    /\ body_done("executor")

\* Code snippets an Executor can hand to the Critic: the shipped one, one that
\* contains "shift(-" and one that contains "future".
StubCode ==
    { CodeSnippet,
      [text |-> "shift(-1)", has_negative_shift |-> TRUE, has_future |-> FALSE],
      [text |-> "future_return", has_negative_shift |-> FALSE, has_future |-> TRUE] }

\* Risk metrics an analysis can hand to the RiskManager, in hundredths: at the
\* limits, drawdown above its limit, exposure above its limit.
StubRiskMetrics ==
    { [max_drawdown |-> 20, exposure |-> 100],
      [max_drawdown |-> 25, exposure |-> 100],
      [max_drawdown |-> 20, exposure |-> 150] }

\* executor_node around an Executor whose generated code and analysis results
\* are arbitrary: the node stores whatever artifacts execute returns.
executor_node_stubbed ==
    /\ pc = "body"
    /\ current = "executor"
    /\ \E code \in StubCode, risk_metrics \in StubRiskMetrics :
          LET result == ExecutorAgent_execute(state.plan, <<100>>)
          IN state' = executor_body(state,
                         [result.artifacts EXCEPT !.code_snippet = code,
                                                  !.risk_metrics = risk_metrics])
    /\ body_done("executor")

critic_node ==
    \/ node_entry("critic")
    \/ /\ pc = "body"
       /\ current = "critic"
       /\ state' = critic_body(state, PC_THRESHOLD)
       /\ body_done("critic")

risk_manager_node ==
    \/ node_entry("risk")
    \/ /\ pc = "body"
       /\ current = "risk"
       /\ state' = risk_manager_body(state)
       /\ body_done("risk")

human_approval_node ==
    \/ node_entry("approval")
    \/ /\ pc = "body"
       /\ current = "approval"
       /\ state' = human_approval_body(state, approvalFlag)
       /\ body_done("approval")

\* The engine follows the edge out of the node that just returned.
follow(edge) ==
    /\ current' = IF edge.to = "END" THEN current ELSE edge.to
    /\ pc' = IF edge.to = "END" THEN "log" ELSE "enter"
    /\ decision' = IF edge.to = "END" THEN edge.route ELSE decision
    /\ UNCHANGED <<engine, PC_THRESHOLD, state, pauseFlag, approvalFlag, decisions,
                   exception, trace, pauseObservedAt, sincePause,
                   vetoes, approvalRead, resumed, probe, first>>

graph_invoke ==
    /\ engine = "langgraph"
    /\ pc = "edge"
    /\ follow(graph_edges(current, state))

research_flow_loop ==
    /\ engine = "prefect"
    /\ pc = "edge"
    /\ follow(flow_edges(current, state))

\* The record is written twice.
log_state_twice ==
    /\ pc = "log"
    /\ decisions' = Append(Append(decisions, state), state)
    /\ pc' = "exit"
    /\ UNCHANGED <<engine, PC_THRESHOLD, state, current, pauseFlag, approvalFlag,
                   exception, decision, trace, pauseObservedAt, sincePause,
                   vetoes, approvalRead, resumed, probe, first>>

\* DecisionLogger.log_state: one record appended to the decision log.
log_state ==
    /\ pc = "log"
    /\ decisions' = Append(decisions, state)
    /\ pc' = "exit"
    /\ UNCHANGED <<engine, PC_THRESHOLD, state, current, pauseFlag, approvalFlag,
                   exception, decision, trace, pauseObservedAt, sincePause,
                   vetoes, approvalRead, resumed, probe, first>>

\* The end of run_graph and of research_flow: raise on a set failure_reason,
\* else return the state.
run_exit ==
    /\ pc = "exit"
    /\ IF state.failure_reason # Null
       THEN pc' = "raised" /\ exception' = state.failure_reason
       ELSE pc' = "returned" /\ exception' = exception
    /\ UNCHANGED <<engine, PC_THRESHOLD, state, current, pauseFlag, approvalFlag,
                   decisions, decision, trace, pauseObservedAt, sincePause,
                   vetoes, approvalRead, resumed, probe, first>>

\* The dashboard's Kill Switch button creates the pause flag file.
kill_switch ==
    /\ ~Halted
    /\ ~pauseFlag
    /\ pauseFlag' = TRUE
    /\ sincePause' = 0
    /\ UNCHANGED <<engine, PC_THRESHOLD, state, current, pc, approvalFlag, decisions,
                   exception, decision, trace, pauseObservedAt,
                   vetoes, approvalRead, resumed, probe, first>>

\* The dashboard's Resume button removes the pause flag file.
resume_button ==
    /\ ~Halted
    /\ pauseFlag
    /\ pauseFlag' = FALSE
    /\ sincePause' = 0
    /\ UNCHANGED <<engine, PC_THRESHOLD, state, current, pc, approvalFlag, decisions,
                   exception, decision, trace, pauseObservedAt,
                   vetoes, approvalRead, resumed, probe, first>>

\* The dashboard's Approve and Reject buttons write the approval flag file.
write_approval ==
    /\ ~Halted
    /\ \E value \in {"approve", "reject"} :
          /\ approvalFlag # value
          /\ approvalFlag' = value
    /\ UNCHANGED <<engine, PC_THRESHOLD, state, current, pc, pauseFlag, decisions,
                   exception, decision, trace, pauseObservedAt, sincePause,
                   vetoes, approvalRead, resumed, probe, first>>

\* A resumed invocation: the state persisted at the paused exit of the Approval
\* stage is handed to human_approval_node again, after the operator has
\* written a decision; the pause flag file is present or not.
resume_approval ==
    /\ pc = "returned"
    /\ ~resumed
    /\ state.awaiting_approval
    /\ state.pause_requested
    /\ state.failure_reason = Null
    /\ approvalFlag' \in {"approve", "reject"}
    /\ pauseFlag' \in BOOLEAN
    /\ current' = "approval"
    /\ pc' = "enter"
    /\ decision' = "none"
    /\ resumed' = TRUE
    /\ UNCHANGED <<engine, PC_THRESHOLD, state, decisions, exception, trace,
                   pauseObservedAt, sincePause, vetoes, approvalRead, probe, first>>

\* The process that ran one entry point to its end calls an entry point
\* again: a fresh GraphState, while the flag files and the decision log on
\* disk stay as the first run left them.
next_run(e) ==
    /\ Halted
    /\ first = NoFirst
    /\ first' = [engine |-> engine, state |-> state, trace |-> trace, pc |-> pc,
                 exception |-> exception, decision |-> decision]
    /\ engine' = e
    /\ state' = IF e = "langgraph"
                THEN say(GraphState(state.hypothesis, state.max_retries),
                         "user", state.hypothesis)
                ELSE GraphState(state.hypothesis, state.max_retries)
    /\ current' = "planner"
    /\ pc' = "enter"
    /\ exception' = Null
    /\ decision' = "none"
    /\ trace' = <<>>
    /\ pauseObservedAt' = ""
    /\ sincePause' = 0
    /\ vetoes' = 0
    /\ approvalRead' = ""
    /\ UNCHANGED <<PC_THRESHOLD, pauseFlag, approvalFlag, decisions, resumed, probe>>

\* The second run uses the same entry point as the first.
next_run_same == next_run(engine)

\* The second run uses the other entry point.
next_run_other == \E e \in Engines \ {engine} : next_run(e)

EngineNext ==
    \/ planner_node
    \/ executor_node
    \/ critic_node
    \/ risk_manager_node
    \/ human_approval_node
    \/ graph_invoke
    \/ research_flow_loop
    \/ log_state
    \/ run_exit

OperatorNext ==
    \/ kill_switch
    \/ resume_button
    \/ write_approval

Next == EngineNext \/ OperatorNext

Spec == Init /\ [][Next]_vars

\* The engines run their next statement whenever there is one; the operator is
\* under no obligation to act.
FairSpec == Spec /\ WF_vars(EngineNext)

\* ------------------------------------------------- a policy called on its own
Agents == {"Planner", "Executor", "Critic", "ComplianceOfficer", "RiskManager"}

\* The tool call precedes the allow-list check of its name.
policy_program_call_first(agent) ==
    CASE agent = "Executor" ->
            << [op |-> "call", tool |-> "fetch_market_data"],
               [op |-> "validate", tool |-> "fetch_market_data"],
               [op |-> "call", tool |-> "clean_data"],
               [op |-> "validate", tool |-> "clean_data"],
               [op |-> "call", tool |-> "run_analysis"],
               [op |-> "validate", tool |-> "run_analysis"] >>
      [] agent = "ComplianceOfficer" ->
            << [op |-> "call", tool |-> "check_restricted_symbols"],
               [op |-> "validate", tool |-> "check_restricted_symbols"],
               [op |-> "call", tool |-> "check_wash_sale_patterns"],
               [op |-> "validate", tool |-> "check_wash_sale_patterns"] >>
      [] OTHER -> << >>

\* The statements of a policy's method that concern tools, in program order:
\* ExecutorAgent.execute, ComplianceOfficerAgent.review; PlannerAgent.plan,
\* CriticAgent.evaluate and RiskManagerAgent.evaluate have none.
policy_program(agent) ==
    CASE agent = "Executor" ->
            << [op |-> "validate", tool |-> "fetch_market_data"],
               [op |-> "call", tool |-> "fetch_market_data"],
               [op |-> "validate", tool |-> "clean_data"],
               [op |-> "call", tool |-> "clean_data"],
               [op |-> "validate", tool |-> "run_analysis"],
               [op |-> "call", tool |-> "run_analysis"] >>
      [] agent = "ComplianceOfficer" ->
            << [op |-> "validate", tool |-> "check_restricted_symbols"],
               [op |-> "call", tool |-> "check_restricted_symbols"],
               [op |-> "validate", tool |-> "check_wash_sale_patterns"],
               [op |-> "call", tool |-> "check_wash_sale_patterns"] >>
      [] OTHER -> << >>

\* Tools whose call can itself raise ToolSafetyError: fetch_market_data does
\* when the download fails or returns nothing.
RaisingTools == {"fetch_market_data"}

\* A policy built on an AgentConfig with any allow-list, about to run its
\* method; no run of the engine is under way.
PolicyInit ==
    /\ engine = "langgraph"
    /\ PC_THRESHOLD = 0
    /\ state = GraphState("H", 0)
    /\ current = "planner"
    /\ pc = "enter"
    /\ pauseFlag = FALSE
    /\ approvalFlag = "absent"
    /\ decisions = <<>>
    /\ exception = Null
    /\ decision = "none"
    /\ trace = <<>>
    /\ pauseObservedAt = ""
    /\ sincePause = 0
    /\ vetoes = 0
    /\ approvalRead = ""
    /\ resumed = FALSE
    /\ first = NoFirst
    /\ \E agent \in Agents, allowed \in SUBSET ALL_TOOLS :
          probe = [agent |-> agent, allowed |-> allowed, ip |-> 1,
                   events |-> <<>>, raised |-> FALSE]

\* The policy's next tool statement: validate_tool_access raises when the name
\* is not on the allow-list; a call invokes the tool, which may raise.
policy_step ==
    /\ probe.agent # Null
    /\ ~probe.raised
    /\ probe.ip <= Len(policy_program(probe.agent))
    /\ LET st == policy_program(probe.agent)[probe.ip]
       IN IF st.op = "validate"
          THEN LET ok == st.tool \in probe.allowed
               IN probe' = [probe EXCEPT
                              !.ip = IF ok THEN probe.ip + 1 ELSE probe.ip,
                              !.raised = ~ok,
                              !.events = Append(probe.events,
                                           [kind |-> "check", tool |-> st.tool, ok |-> ok])]
          ELSE \E ok \in (IF st.tool \in RaisingTools THEN BOOLEAN ELSE {TRUE}) :
                  probe' = [probe EXCEPT
                              !.ip = IF ok THEN probe.ip + 1 ELSE probe.ip,
                              !.raised = ~ok,
                              !.events = Append(probe.events,
                                           [kind |-> "invoke", tool |-> st.tool, ok |-> ok])]
    /\ UNCHANGED <<engine, PC_THRESHOLD, state, current, pc, pauseFlag, approvalFlag,
                   decisions, exception, decision, trace, pauseObservedAt, sincePause,
                   vetoes, approvalRead, resumed, first>>

PolicyNext == policy_step

PolicySpec == PolicyInit /\ [][PolicyNext]_vars

\* --------------------------------------------- the scorer called on its own
\* No run of the engine is under way: the run's variables stay as they are.
NoRun ==
    /\ engine = "langgraph"
    /\ PC_THRESHOLD = 0
    /\ state = GraphState("H", 0)
    /\ current = "planner"
    /\ pc = "enter"
    /\ pauseFlag = FALSE
    /\ approvalFlag = "absent"
    /\ decisions = <<>>
    /\ exception = Null
    /\ decision = "none"
    /\ trace = <<>>
    /\ pauseObservedAt = ""
    /\ sincePause = 0
    /\ vetoes = 0
    /\ approvalRead = ""
    /\ resumed = FALSE
    /\ first = NoFirst

\* Prediction values: one negative, zero, one positive.
PredictionValues == {-1, 0, 2}

Vectors == UNION {[1..n -> PredictionValues] : n \in 0..MaxVecLen}

ScenarioLists == UNION {[1..n -> Vectors] : n \in 0..MaxScenarioCount}

\* FactFinConfig.consistency_threshold, in tenths.
FactFinThreshold == 7

\* FactFinValidator.consistency_check, given the recommendation extracted
\* from the executor's result on the data and on each perturbed scenario
\* (perturb_data returns no scenario when the data is empty).
consistency_check(baseline, predictions) ==
    IF Len(predictions) = 0
    THEN [prediction_consistency |-> [num |-> 0, den |-> 1], flagged |-> TRUE,
          reason |-> "empty data"]
    ELSE IF Len(baseline) = 0
    THEN [prediction_consistency |-> [num |-> 0, den |-> 1], flagged |-> TRUE,
          reason |-> "missing baseline prediction"]
    ELSE LET q == [num |-> sum_matches(baseline, predictions, Len(predictions)),
                   den |-> Len(baseline) * Len(predictions)]
         IN [prediction_consistency |-> q,
             flagged |-> below(q, FactFinThreshold),
             threshold |-> FactFinThreshold]

\* The scorer is about to be called on a baseline and a list of scenario
\* predictions.
ScorerInit ==
    /\ NoRun
    /\ \E baseline \in Vectors, cfs \in ScenarioLists :
          probe = [agent |-> "scorer", baseline |-> baseline, cfs |-> cfs, ip |-> 0,
                   result |-> [num |-> 0, den |-> 1], report |-> EmptyDict,
                   check |-> EmptyDict]

\* One call of prediction_consistency, build_consistency_report and
\* FactFinValidator.consistency_check on the same inputs.
scorer_call ==
    /\ probe.agent = "scorer"
    /\ probe.ip = 0
    /\ probe' = [probe EXCEPT
                   !.ip = 1,
                   !.result = prediction_consistency(probe.baseline, probe.cfs),
                   !.report = build_consistency_report(probe.baseline, probe.cfs),
                   !.check = consistency_check(probe.baseline, probe.cfs)]
    /\ UNCHANGED <<engine, PC_THRESHOLD, state, current, pc, pauseFlag, approvalFlag,
                   decisions, exception, decision, trace, pauseObservedAt, sincePause,
                   vetoes, approvalRead, resumed, first>>

ScorerNext == scorer_call

ScorerSpec == ScorerInit /\ [][ScorerNext]_vars

\* ------------------------------------------ the generator called on its own
\* CounterfactualConfig.earnings_shift_days.
EarningsShiftDays == 3

\* Datasets handed to generate_counterfactuals.
GenDatasets ==
    { [prices |-> <<100>>, earnings_dates |-> <<10, 40>>, sentiment |-> <<5>>],
      [prices |-> <<100, 102>>, earnings_dates |-> <<10>>, sentiment |-> <<-5, 0>>] }

Seeds == {7, 8}

\* The k-th value of the stream of np.random.default_rng(seed): a fixed
\* function of the seed and the position.
rng_value(seed, k) == ((seed + 1) * (k + 2) * (k + 2) + seed * k) % 13

\* rng.normal(...) at stream position k, as a price offset.
normal_draw(seed, k) == rng_value(seed, k) - 6

\* rng.integers(-earnings_shift_days, earnings_shift_days + 1) at position k.
integers_draw(seed, k) == (rng_value(seed, k) % (2 * EarningsShiftDays + 1)) - EarningsShiftDays

\* Every invocation draws from one generator shared by the module.
generator_of_shared(invocation) == 1

\* The generator an invocation draws from: the one it created itself.
generator_of(invocation) == invocation

\* Two invocations of generate_counterfactuals on the same dataset and
\* config, each at its first statement, each with the generator it seeds.
GeneratorInit ==
    /\ NoRun
    /\ \E dataset \in GenDatasets, scenarios \in 1..MaxGenScenarios,
          seed1 \in Seeds, seed2 \in Seeds :
          probe = [agent |-> "generator", dataset |-> dataset, scenarios |-> scenarios,
                   seed |-> <<seed1, seed2>>,
                   rng |-> <<[seed |-> seed1, pos |-> 0], [seed |-> seed2, pos |-> 0]>>,
                   i |-> <<0, 0>>,
                   phase |-> <<"noise", "noise">>,
                   noise |-> << <<>>, <<>> >>,
                   out |-> << <<>>, <<>> >>]

\* noise = rng.normal(..., size=prices.shape) of scenario i.
gen_noise(invocation) ==
    LET g == generator_of(invocation)
        r == probe.rng[g]
        n == Len(probe.dataset.prices)
    IN /\ probe.agent = "generator"
       /\ probe.i[invocation] < probe.scenarios
       /\ probe.phase[invocation] = "noise"
       /\ probe' = [probe EXCEPT
                      !.noise[invocation] = [k \in 1..n |-> normal_draw(r.seed, r.pos + k)],
                      !.rng[g].pos = r.pos + n,
                      !.phase[invocation] = "shift"]
       /\ UNCHANGED <<engine, PC_THRESHOLD, state, current, pc, pauseFlag, approvalFlag,
                      decisions, exception, decision, trace, pauseObservedAt, sincePause,
                      vetoes, approvalRead, resumed, first>>

\* shift = rng.integers(...), then scenario i is built and appended.
gen_shift(invocation) ==
    LET g == generator_of(invocation)
        r == probe.rng[g]
        d == probe.dataset
        shift == integers_draw(r.seed, r.pos + 1)
        scenario == [ prices |-> [k \in DOMAIN d.prices |->
                                      d.prices[k] + probe.noise[invocation][k]],
                      earnings_dates |-> [k \in DOMAIN d.earnings_dates |->
                                              d.earnings_dates[k] + shift],
                      sentiment |-> [k \in DOMAIN d.sentiment |-> 0 - d.sentiment[k]],
                      scenario_id |-> probe.i[invocation] ]
    IN /\ probe.agent = "generator"
       /\ probe.i[invocation] < probe.scenarios
       /\ probe.phase[invocation] = "shift"
       /\ probe' = [probe EXCEPT
                      !.out[invocation] = Append(@, scenario),
                      !.rng[g].pos = r.pos + 1,
                      !.i[invocation] = @ + 1,
                      !.phase[invocation] = "noise"]
       /\ UNCHANGED <<engine, PC_THRESHOLD, state, current, pc, pauseFlag, approvalFlag,
                      decisions, exception, decision, trace, pauseObservedAt, sincePause,
                      vetoes, approvalRead, resumed, first>>

GeneratorNext == \E invocation \in 1..2 : gen_noise(invocation) \/ gen_shift(invocation)

GeneratorSpec == GeneratorInit /\ [][GeneratorNext]_vars

\* ------------------------------------- the RiskManager called on its own
\* Drawdowns and exposures in hundredths, below, at and above the limits.
DrawdownValues == {-20, 0, 10, 19, 20, 21, 25, 100}

ExposureValues == {0, 50, 99, 100, 101, 150}

\* Artifacts with both metrics, with one of them, with an empty risk_metrics
\* and without risk_metrics.
RiskArtifacts ==
    {[risk_metrics |-> [max_drawdown |-> d, exposure |-> e]] :
        d \in DrawdownValues, e \in ExposureValues}
    \cup {[risk_metrics |-> [max_drawdown |-> d]] : d \in DrawdownValues}
    \cup {[risk_metrics |-> [exposure |-> e]] : e \in ExposureValues}
    \cup {[risk_metrics |-> EmptyDict], EmptyDict}

RiskInit ==
    /\ NoRun
    /\ \E artifacts \in RiskArtifacts :
          probe = [agent |-> "RiskManager", artifacts |-> artifacts, ip |-> 0,
                   report |-> EmptyDict]

\* One call of RiskManagerAgent.evaluate; the artifacts are only read.
risk_evaluate ==
    /\ probe.agent = "RiskManager"
    /\ probe.ip = 0
    /\ probe' = [probe EXCEPT !.ip = 1,
                               !.report = RiskManagerAgent_evaluate(probe.artifacts)]
    /\ UNCHANGED <<engine, PC_THRESHOLD, state, current, pc, pauseFlag, approvalFlag,
                   decisions, exception, decision, trace, pauseObservedAt, sincePause,
                   vetoes, approvalRead, resumed, first>>

RiskNext == risk_evaluate

RiskSpec == RiskInit /\ [][RiskNext]_vars

\* Runs in which the Executor's artifacts are arbitrary.
StubNext == Next \/ executor_node_stubbed

StubSpec == Init /\ [][StubNext]_vars

\* Runs in which the Compliance review is given arbitrary symbols and trades.
ComplianceNext == Next \/ executor_node_reviewed

ComplianceSpec == Init /\ [][ComplianceNext]_vars

\* Two runs one after the other; the operator acts during the first only, so
\* every signal written is meant for the first run.
IsolationNext ==
    \/ (first = NoFirst /\ Next)
    \/ (first # NoFirst /\ EngineNext)
    \/ next_run_same

IsolationSpec == Init /\ [][IsolationNext]_vars

\* Two runs one after the other through the two entry points, the operator
\* not acting: the flag files are the same throughout.
EquivalenceNext == EngineNext \/ next_run_other

EquivalenceSpec == Init /\ [][EquivalenceNext]_vars

\* Runs that may be resumed at the Approval stage after a paused exit.
ResumeNext == Next \/ resume_approval

ResumeSpec == Init /\ [][ResumeNext]_vars

\* ================================================================== claims
Count(seq, x) == Cardinality({i \in DOMAIN seq : seq[i] = x})

\* Messages of the ToolSafetyError a tool call of the Executor can raise.
ToolErrors == { "No market data returned from yfinance.",
                "Tool 'fetch_market_data' not allowed for agent Executor.",
                "Tool 'clean_data' not allowed for agent Executor.",
                "Tool 'run_analysis' not allowed for agent Executor." }

\* The Executor's tool raised: the run ended by that exception.
ToolCrash == pc = "raised" /\ exception \in ToolErrors

\* C1: the Executor body runs at most max_retries + 1 times (so the retry loop
\* is taken at most max_retries times, each time after one more veto), the
\* Critic vetoes at most max_retries + 1 times, and the (max_retries + 1)-th
\* veto ends the run failed with the reason "Max retries exceeded after critic
\* veto.": no node is entered after it, the routing decision is "fail" and the
\* entry point raises that reason. With max_retries = 0 this is the first veto.
C1_RetryLoopBounded ==
    /\ Count(trace, "executor") <= state.max_retries + 1
    /\ Count(trace, "executor") <= vetoes + 1
    /\ vetoes <= state.max_retries + 1
    /\ vetoes = state.max_retries + 1 =>
          /\ state.failure_reason = MaxRetriesExceeded
          /\ pc \in {"edge", "log", "exit", "raised"}
          /\ current = "critic"
          /\ decision \in {"none", "fail"}
          /\ pc \in {"log", "exit", "raised"} => decision = "fail"
          /\ pc = "raised" => exception = MaxRetriesExceeded

\* C1 witness: a run with retries configured ended on its last allowed veto,
\* the Executor having run max_retries + 1 times.
C1_Witness ==
    /\ pc = "raised"
    /\ state.max_retries >= 1
    /\ vetoes = state.max_retries + 1
    /\ Count(trace, "executor") = state.max_retries + 1
    /\ exception = MaxRetriesExceeded

\* C2: 0 <= retry_count <= max_retries in every reachable state, and no step
\* decreases retry_count.
C2_RetryCountBounded ==
    /\ [](0 <= state.retry_count /\ state.retry_count <= state.max_retries)
    /\ [][state'.retry_count >= state.retry_count]_vars

\* C2 witness: the Critic has used up every retry.
C2_Witness ==
    /\ state.max_retries >= 1
    /\ state.retry_count = state.max_retries
    /\ current = "critic"
    /\ pc = "edge"

StateDone == state.human_approval
StateFailed == state.failure_reason # Null
StatePaused == state.pause_requested \/ pauseObservedAt # ""

\* C4: in the final state of a run at most one of done, failed and paused
\* holds; in particular no final state is paused and carries a failure_reason.
C4_TerminalStatesExclusive ==
    Halted => /\ ~(StateDone /\ StateFailed)
              /\ ~(StateDone /\ StatePaused)
              /\ ~(StateFailed /\ StatePaused)

\* C5: once failure_reason is set, no step changes critic_report, risk_report
\* or compliance_report, no node body executes, and the engine does not leave
\* the Critic for another node.
C5_FailureIsTerminal ==
    [][state.failure_reason # Null =>
          /\ state'.critic_report = state.critic_report
          /\ state'.risk_report = state.risk_report
          /\ state'.compliance_report = state.compliance_report
          /\ trace' = trace
          /\ pc' # "body"
          /\ (current = "critic" /\ pc = "edge" => pc' # "enter")]_vars

\* C5 witness: in a retry round the Executor saw the pause signal and set
\* failure_reason, and the Critic node was invoked after it and returned with
\* the reports of the round before still in place.
C5_Witness ==
    /\ state.failure_reason # Null
    /\ pauseObservedAt = "executor"
    /\ vetoes >= 1
    /\ DOMAIN state.critic_report # {}
    /\ current = "critic"
    /\ pc = "edge"

\* C6: no step takes failure_reason from a reason back to None.
C6_FailureMonotonic ==
    [][state.failure_reason # Null => state'.failure_reason # Null]_vars

\* C6 witness: the Planner set failure_reason on the pause signal, the signal
\* was withdrawn, and the Executor node has run its check since.
C6_Witness ==
    /\ state.failure_reason # Null
    /\ pauseObservedAt = "planner"
    /\ ~pauseFlag
    /\ current = "executor"
    /\ pc = "edge"

\* The fields a paused node must leave alone.
Frame(s) ==
    << s.plan, s.executor_artifacts, s.critic_report, s.risk_report, s.compliance_report,
       s.messages, s.logs, s.retry_count, s.awaiting_approval, s.human_approval,
       s.active_node >>

\* C7: a node that starts while the pause flag is set returns without running
\* its body; from the step that observes the signal on, no step changes plan,
\* executor_artifacts, the three reports, messages, logs, retry_count,
\* awaiting_approval, human_approval or active_node, and no body executes; and
\* at most one node body completes while the flag stays set.
C7_PauseAtNodeBoundary ==
    /\ [][pc = "enter" /\ pauseFlag /\ pc' # "enter" => pc' = "edge"]_vars
    /\ [][pauseObservedAt' # "" => Frame(state') = Frame(state) /\ trace' = trace]_vars
    /\ [](sincePause <= 1)

\* C7 witness: the flag was set while a node body was executing, that body
\* completed, and the next node observed the signal.
C7_Witness ==
    /\ sincePause = 1
    /\ pauseFlag
    /\ pauseObservedAt \in {"executor", "critic", "risk", "approval"}
    /\ Halted

\* C8: with the pause signal present when the Planner first starts (the Prefect
\* flow starts it again only after a retry), the run ends with the plan empty,
\* nothing appended to messages or logs, no node body executed, active_node
\* empty, and in the terminal state paused: the routing decision is "paused"
\* and the entry point returns.
C8_PauseBeforePlanner ==
    Halted /\ pauseObservedAt = "planner" /\ state.retry_count = 0 =>
        /\ state.plan = <<>>
        /\ state.logs = <<>>
        /\ Len(state.messages) = (IF engine = "langgraph" THEN 1 ELSE 0)
        /\ trace = <<>>
        /\ state.active_node = ""
        /\ decision = "paused"
        /\ pc = "returned"

\* C9: a run in which a node observed the pause signal ends paused, not failed:
\* its routing decision is "paused" and the entry point returns.
C9_OperatorHaltIsPaused ==
    Halted /\ pauseObservedAt # "" => decision = "paused" /\ pc = "returned"

\* C10: after the Approval body ran and read no decision, awaiting_approval and
\* pause_requested are true, human_approval is false, failure_reason is None,
\* the routing decision after Approval is "paused" and the entry point returns.
C10_AwaitingApproval ==
    approvalRead \notin {"", "approve", "reject"} =>
        /\ state.awaiting_approval
        /\ state.pause_requested
        /\ ~state.human_approval
        /\ state.failure_reason = Null
        /\ route_after_human(state) = "paused"
        /\ decision \in {"none", "paused"}
        /\ pc \in {"edge", "log", "exit", "returned"}
        /\ pc # "edge" => decision = "paused"

\* C10 witness: a run returned from the Approval stage with no decision file.
C10_Witness ==
    /\ pc = "returned"
    /\ approvalRead = "absent"
    /\ decision = "paused"
    /\ decisions # <<>>

\* C11: a state persisted at the paused exit of the Approval stage and
\* re-entered at that stage with the decision "approve" present and no pause
\* flag ends done: returned, human_approval = true, awaiting_approval = false,
\* failure_reason null.
C11_ResumedApprovalEndsDone ==
    (Halted /\ resumed /\ approvalFlag = "approve" /\ ~pauseFlag)
        => /\ pc = "returned"
           /\ decision = "done"
           /\ state.human_approval
           /\ ~state.awaiting_approval
           /\ state.failure_reason = Null

\* C12: when the Approval body reads "approve" it leaves human_approval = true,
\* awaiting_approval = false and failure_reason null, and the run is routed
\* done and returns; when it reads "reject" it leaves human_approval = false
\* and the failure_reason "Rejected by human approver.", and the run is routed
\* fail and raises that reason; neither outcome sets pause_requested.
C12_ApproveAndReject ==
    /\ approvalRead = "approve"
          => /\ state.human_approval
             /\ ~state.awaiting_approval
             /\ state.failure_reason = Null
             /\ ~state.pause_requested
             /\ route_after_human(state) = "done"
             /\ pc \in {"edge", "log", "exit", "returned"}
             /\ pc # "edge" => decision = "done"
    /\ approvalRead = "reject"
          => /\ ~state.human_approval
             /\ ~state.awaiting_approval
             /\ state.failure_reason = RejectedByHuman
             /\ ~state.pause_requested
             /\ route_after_human(state) = "fail"
             /\ pc \in {"edge", "log", "exit", "raised"}
             /\ pc # "edge" => decision = "fail"
             /\ pc = "raised" => exception = RejectedByHuman

\* A rejected run has raised the rejection.
C12_Witness ==
    /\ pc = "raised"
    /\ approvalRead = "reject"
    /\ decision = "fail"
    /\ exception = RejectedByHuman

\* C13: a run that saw no pause signal, whose generated code passes the
\* Critic's code check (low look-ahead risk, no veto), whose risk metrics are
\* within limits and whose approval decision is "approve" goes
\* Critic -> RiskManager -> Approval and ends done.
C13_DoneReachable ==
    ( /\ Halted
      /\ ~ToolCrash
      /\ pauseObservedAt = ""
      /\ ~pauseFlag
      /\ ~CriticAgent_evaluate(state.executor_artifacts).veto
      /\ CriticAgent_evaluate(state.executor_artifacts).look_ahead_bias = "low"
      /\ RiskManagerAgent_evaluate(state.executor_artifacts).status = "pass"
      /\ approvalFlag = "approve"
      /\ approvalRead \in {"", "approve"} )
        => /\ pc = "returned"
           /\ decision = "done"
           /\ state.human_approval
           /\ state.failure_reason = Null
           /\ Len(trace) >= 3
           /\ SubSeq(trace, Len(trace) - 2, Len(trace))
                 = <<"critic", "risk", "approval">>

\* C14: when the RiskManager's report has a status other than "pass", the
\* node sets failure_reason to exactly "Risk manager vetoed based on limits.",
\* the run is routed fail and raises that reason, and the Approval stage never
\* executes.
C14_RiskVetoEndsRun ==
    (Get(state.risk_report, "status", "pass") # "pass")
        => /\ state.failure_reason = RiskVetoed
           /\ route_after_risk(state) = "fail"
           /\ Count(trace, "approval") = 0
           /\ approvalRead = ""
           /\ ~state.awaiting_approval
           /\ pc \in {"edge", "log", "exit", "raised"}
           /\ current = "risk"
           /\ pc # "edge" => decision = "fail"
           /\ pc = "raised" => exception = RiskVetoed

\* A run ended by the risk veto on a drawdown of 0.25.
C14_Witness ==
    /\ pc = "raised"
    /\ exception = RiskVetoed
    /\ state.risk_report.status = "fail"
    /\ state.risk_report.violations = <<"max_drawdown">>
    /\ trace[Len(trace)] = "risk"

\* C15: the entry point raises if and only if the failure_reason of the state
\* the run ended with is non-null, and the error raised carries that reason;
\* otherwise it returns the state, which is then done or paused.
C15_RaisesIffFailureReason ==
    Halted
        => /\ (pc = "raised") <=> (state.failure_reason # Null)
           /\ pc = "raised" => exception = state.failure_reason
           /\ pc = "returned" => decision \in {"done", "paused"}

\* C16: by the time the entry point has returned or raised, whatever the
\* outcome (done, paused, retry exhaustion, risk veto, human rejection, tool
\* error), exactly one audit record has been written for the run, the
\* snapshot of its final state.
C16_OneAuditRecordPerRun ==
    Halted => /\ Len(decisions) = 1
              /\ decisions[1] = state

\* C17 as stated: one audit record per retried transition and one for the
\* terminal transition, so a run with k retries has written k + 1 records by
\* the time it ends.
C17_RecordPerRetry ==
    (Halted /\ ~ToolCrash) => Len(decisions) = state.retry_count + 1

\* C17 amended: no audit record is written at a retried transition; a run
\* writes at most one record, whatever its number of retries: none while
\* nodes still execute, and exactly one, the snapshot of the final state, once
\* the terminal routing decision has been logged; a record once written is
\* never modified or removed.
C17_OneRecordAtTerminal ==
    /\ [](/\ Len(decisions) <= 1
          /\ pc \in {"enter", "body", "edge", "log"} => decisions = <<>>
          /\ Len(decisions) = 1 => /\ decisions[1] = state
                                   /\ decision \in TerminalRoutes
          /\ (decision # "none" /\ pc \in {"exit", "returned", "raised"})
                => Len(decisions) = 1)
    /\ [][/\ Len(decisions') >= Len(decisions)
          /\ SubSeq(decisions', 1, Len(decisions)) = decisions]_vars

\* A run that retried and was ended by retry exhaustion left one record.
C17_Witness ==
    /\ pc = "raised"
    /\ exception = MaxRetriesExceeded
    /\ state.retry_count >= 1
    /\ vetoes = state.retry_count + 1
    /\ Len(decisions) = 1

\* C18: when a tool call of the Executor stage fails (the market-data tool
\* returns nothing, or a tool is outside the allow-list), the run ends failed
\* with a non-empty failure_reason recorded on the state, after no retry of
\* the stage.
C18_ToolErrorOnState ==
    (Halted /\ exception \in ToolErrors)
        => /\ state.failure_reason # Null
           /\ state.failure_reason # ""
           /\ decision = "fail"

\* C19: in every policy, for every allow-list, a tool is invoked only right
\* after the allow-list check of that same name has passed; a check passes
\* exactly when the name is on the list, and after a failed check (a
\* tool-access error) no tool is invoked any more. The Executor invokes only
\* fetch_market_data, clean_data and run_analysis; Planner, Critic and
\* RiskManager invoke no tool.
C19_CheckPrecedesCall ==
    LET ev == probe.events
        invoked == {ev[i].tool : i \in {j \in DOMAIN ev : ev[j].kind = "invoke"}}
    IN /\ \A i \in DOMAIN ev :
             /\ ev[i].kind = "invoke"
                   => /\ i > 1
                      /\ ev[i - 1] = [kind |-> "check", tool |-> ev[i].tool, ok |-> TRUE]
                      /\ ev[i].tool \in probe.allowed
             /\ ev[i].kind = "check"
                   => /\ ev[i].ok <=> (ev[i].tool \in probe.allowed)
                      /\ ~ev[i].ok => (i = Len(ev) /\ probe.raised)
       /\ probe.agent = "Executor"
             => invoked \subseteq {"fetch_market_data", "clean_data", "run_analysis"}
       /\ probe.agent \in {"Planner", "Critic", "RiskManager"} => ev = <<>>

\* An Executor whose allow-list lacks clean_data fetched the data and was
\* stopped by the check before clean_data.
C19_Witness ==
    /\ probe.agent = "Executor"
    /\ probe.raised
    /\ probe.events = << [kind |-> "check", tool |-> "fetch_market_data", ok |-> TRUE],
                         [kind |-> "invoke", tool |-> "fetch_market_data", ok |-> TRUE],
                         [kind |-> "check", tool |-> "clean_data", ok |-> FALSE] >>

\* C20: the veto of a stored Critic report equals (code-pattern veto) or
\* (prediction consistency < PC_THRESHOLD): a report with high look-ahead risk
\* (critique score 0.4 < 0.8) carries veto = true whatever the consistency
\* test says, and the note about the threshold is appended to the report's
\* notes exactly when the consistency test forces the veto; while the Critic
\* body is the last one that ran, the code-pattern veto is the one
\* CriticAgent.evaluate gives for the stored artifacts.
C20_VetoIsPatternOrConsistency ==
    (state.critic_report # EmptyDict)
        => LET r == state.critic_report
               pattern == r.critique_score < 8
               forced == below(r.counterfactual.prediction_consistency, PC_THRESHOLD)
           IN /\ r.veto <=> (pattern \/ forced)
              /\ r.look_ahead_bias = "high" => (r.critique_score = 4 /\ r.veto)
              /\ r.look_ahead_bias = "low" => (r.critique_score = 9 /\ (r.veto <=> forced))
              /\ r.notes = "Heuristic review completed."
                              \o (IF forced THEN " PC below threshold." ELSE "")
              /\ trace[Len(trace)] = "critic"
                    => (r.veto <=> (CriticAgent_evaluate(state.executor_artifacts).veto
                                     \/ forced))

\* The Critic has just vetoed code with a look-ahead pattern although the
\* consistency test did not force it.
C20_Witness ==
    /\ pc = "edge"
    /\ current = "critic"
    /\ trace # <<>>
    /\ trace[Len(trace)] = "critic"
    /\ state.executor_artifacts.code_snippet.has_future
    /\ state.critic_report.look_ahead_bias = "high"
    /\ ~below(state.critic_report.counterfactual.prediction_consistency, PC_THRESHOLD)
    /\ state.critic_report.veto
    /\ state.critic_report.notes = "Heuristic review completed."

\* Negative, zero or positive.
SignClass(x) == IF x < 0 THEN "negative" ELSE IF x = 0 THEN "zero" ELSE "positive"

\* Every scenario's sign vector equals the baseline's element by element.
AllScenariosMatch(baseline, cfs) ==
    \A k \in DOMAIN cfs :
        /\ Len(cfs[k]) = Len(baseline)
        /\ \A i \in DOMAIN baseline : SignClass(cfs[k][i]) = SignClass(baseline[i])

\* C21 as stated: for every baseline and every list of scenario predictions,
\* empty ones included, the consistency lies in [0, 1] and equals 1 if and
\* only if every scenario's sign vector matches the baseline's.
C21_OneIffAllMatch ==
    (probe.ip = 1)
        => /\ 0 <= probe.result.num
           /\ probe.result.num <= probe.result.den
           /\ (probe.result.num = probe.result.den)
                 <=> AllScenariosMatch(probe.baseline, probe.cfs)

\* C21 amended: the consistency lies in [0, 1]; it is 0 when the baseline or
\* the list of scenarios is empty; for a non-empty baseline and a non-empty
\* list it equals 1 if and only if every scenario has the baseline's length
\* and the baseline's sign at every position. FactFinValidator's check
\* reports the same value.
C21_OneIffAllMatchNonEmpty ==
    (probe.ip = 1)
        => LET q == probe.result
               empty == Len(probe.baseline) = 0 \/ Len(probe.cfs) = 0
           IN /\ q.den > 0
              /\ 0 <= q.num
              /\ q.num <= q.den
              /\ empty => q.num = 0
              /\ ~empty => ((q.num = q.den)
                               <=> AllScenariosMatch(probe.baseline, probe.cfs))
              /\ probe.check.prediction_consistency.num * q.den
                    = q.num * probe.check.prediction_consistency.den

\* Two scenarios of which one has a zero where the baseline is positive: the
\* consistency is 3/4.
C21_Witness ==
    /\ probe.ip = 1
    /\ probe.baseline = <<2, -1>>
    /\ probe.cfs = << <<2, -1>>, <<0, -1>> >>
    /\ probe.result = [num |-> 3, den |-> 4]

\* C22: when the baseline is empty or the list of scenarios is empty, the
\* report the scorer returns (build_consistency_report as well as
\* FactFinValidator.consistency_check) has prediction_consistency 0.0,
\* flagged = true and a reason.
C22_EmptyIsFlagged ==
    (probe.ip = 1 /\ (Len(probe.baseline) = 0 \/ Len(probe.cfs) = 0))
        => /\ probe.check.prediction_consistency.num = 0
           /\ Get(probe.check, "flagged", FALSE)
           /\ Get(probe.check, "reason", Null) # Null
           /\ probe.report.prediction_consistency.num = 0
           /\ Get(probe.report, "flagged", FALSE)
           /\ Get(probe.report, "reason", Null) # Null

\* Positions at which a same-length scenario has the baseline's sign class;
\* 0 for a scenario of another length.
MatchCount(baseline, cf) ==
    IF Len(cf) # Len(baseline) THEN 0
    ELSE Cardinality({i \in DOMAIN baseline : SignClass(cf[i]) = SignClass(baseline[i])})

RECURSIVE SumMatchCounts(_, _, _)
SumMatchCounts(baseline, cfs, k) ==
    IF k = 0 THEN 0 ELSE MatchCount(baseline, cfs[k]) + SumMatchCounts(baseline, cfs, k - 1)

\* C29: for a non-empty baseline of length L and a non-empty list of n
\* scenarios, the call returns (no error) the mean over the n scenarios of
\* the per-scenario match fraction: MatchCount / L for a scenario of length L
\* (signs compared as negative, zero, positive), 0 for a scenario of another
\* length. FactFinValidator's check computes the same mean.
C29_MeanOfMatchFractions ==
    (probe.ip = 1 /\ Len(probe.baseline) > 0 /\ Len(probe.cfs) > 0)
        => LET L == Len(probe.baseline)
               n == Len(probe.cfs)
               total == SumMatchCounts(probe.baseline, probe.cfs, n)
           IN /\ probe.result.den > 0
              /\ probe.result.num * (n * L) = total * probe.result.den
              /\ probe.check.prediction_consistency.num * (n * L)
                    = total * probe.check.prediction_consistency.den
              /\ probe.report.prediction_consistency = probe.result

\* A scenario of another length and one that agrees at one of two positions:
\* the mean of 0 and 1/2.
C29_Witness ==
    /\ probe.ip = 1
    /\ probe.baseline = <<2, -1>>
    /\ probe.cfs = << <<2>>, <<2, 0>> >>
    /\ probe.result = [num |-> 1, den |-> 4]

\* Invocation j of the generator has returned its batch.
GenReturned(j) == probe.i[j] = probe.scenarios

\* C23: two invocations of generate_counterfactuals with the same dataset,
\* config and seed, run in any interleaving, return identical batches: the
\* same number of scenarios (config.scenarios) and, scenario by scenario, the
\* same perturbed prices, shifted earnings dates, inverted sentiment and
\* scenario_id; while both run, the scenarios they have in common are equal.
C23_GeneratorDeterministic ==
    (probe.seed[1] = probe.seed[2])
        => /\ \A k \in 1..Min(Len(probe.out[1]), Len(probe.out[2])) :
                 probe.out[1][k] = probe.out[2][k]
           /\ \A j \in 1..2 :
                 /\ Len(probe.out[j]) = probe.i[j]
                 /\ \A k \in DOMAIN probe.out[j] : probe.out[j][k].scenario_id = k - 1
           /\ (GenReturned(1) /\ GenReturned(2))
                 => /\ probe.out[1] = probe.out[2]
                    /\ Len(probe.out[1]) = probe.scenarios

\* Both invocations returned the same batch of two scenarios whose prices
\* differ from each other.
C23_Witness ==
    /\ probe.seed[1] = probe.seed[2]
    /\ GenReturned(1)
    /\ GenReturned(2)
    /\ Len(probe.out[1]) = 2
    /\ probe.out[1] = probe.out[2]
    /\ probe.out[1][1].prices # probe.out[1][2].prices
    /\ probe.out[1][1].prices # probe.dataset.prices

\* C28: RiskManagerAgent.evaluate reports "fail" if and only if the drawdown
\* is above 0.2 or the exposure above 1.0, a missing metric counting as 0 and
\* a metric exactly at its limit passing; violations names exactly the
\* breached metrics, max_drawdown before exposure; the artifacts are the same
\* after the call.
C28_RiskEvaluate ==
    /\ [](probe.ip = 1
            => LET rm == IF "risk_metrics" \in DOMAIN probe.artifacts
                         THEN probe.artifacts.risk_metrics ELSE EmptyDict
                   dd == IF "max_drawdown" \in DOMAIN rm THEN rm.max_drawdown ELSE 0
                   ex == IF "exposure" \in DOMAIN rm THEN rm.exposure ELSE 0
                   r == probe.report
               IN /\ r.status \in {"pass", "fail"}
                  /\ (r.status = "fail") <=> (dd > 20 \/ ex > 100)
                  /\ r.violations = IF dd > 20 /\ ex > 100 THEN <<"max_drawdown", "exposure">>
                                    ELSE IF dd > 20 THEN <<"max_drawdown">>
                                    ELSE IF ex > 100 THEN <<"exposure">>
                                    ELSE <<>>)
    /\ [][probe'.artifacts = probe.artifacts]_vars

\* Both metrics exactly at their limits pass.
C28_Witness ==
    /\ probe.ip = 1
    /\ probe.artifacts = [risk_metrics |-> [max_drawdown |-> 20, exposure |-> 100]]
    /\ probe.report.status = "pass"
    /\ probe.report.violations = <<>>

\* A compliance report that passes.
PassingReview == ComplianceOfficerAgent_review(<<>>, <<>>)

\* C30: the Compliance review fails exactly when it was given a trade or a
\* restricted symbol; whatever its status, the Executor body leaves
\* failure_reason, retry_count, critic_report and risk_report as they were,
\* and the three routing functions answer the same for the state as for the
\* state with a passing compliance report.
C30_ComplianceInformational ==
    /\ [](LET r == state.compliance_report
              s == [state EXCEPT !.compliance_report = PassingReview]
          IN /\ r # EmptyDict
                   => /\ r.status \in {"pass", "fail"}
                      /\ (r.status = "fail")
                            <=> (r.wash_sale_report.checked_trades # <<>>
                                 \/ \E i \in DOMAIN r.symbol_report.checked_symbols :
                                       r.symbol_report.checked_symbols[i]
                                          \in r.symbol_report.restricted)
             /\ route_after_critic(state) = route_after_critic(s)
             /\ route_after_risk(state) = route_after_risk(s)
             /\ route_after_human(state) = route_after_human(s))
    /\ [][(pc = "body" /\ current = "executor" /\ pc' = "edge")
            => /\ state'.failure_reason = state.failure_reason
               /\ state'.retry_count = state.retry_count
               /\ state'.critic_report = state.critic_report
               /\ state'.risk_report = state.risk_report
               /\ state'.compliance_report # EmptyDict]_vars

\* A run whose compliance review failed on a trade was approved and ended
\* done.
C30_Witness ==
    /\ pc = "returned"
    /\ decision = "done"
    /\ state.compliance_report.status = "fail"
    /\ state.compliance_report.wash_sale_report.status = "fail"
    /\ state.failure_reason = Null

\* Messages of the transcript written by a role.
MessagesBy(role) == Cardinality({i \in DOMAIN state.messages : state.messages[i].role = role})

\* C25: the node body executed after a Critic body is the Executor's (after a
\* veto with retries left) or the RiskManager's (no veto), never the
\* Planner's: the Planner body runs, and the planner's transcript entry is
\* written, at most once per run; the Critic body that vetoes with retries
\* left adds exactly 1 to retry_count and a retry entry to logs, the one that
\* does not veto leaves retry_count as it was.
C25_RetryReentersExecutor ==
    /\ [](/\ Count(trace, "planner") <= 1
          /\ MessagesBy("planner") <= 1
          /\ \A i \in 1..(Len(trace) - 1) :
                trace[i] = "critic"
                   => /\ trace[i + 1] \in {"executor", "risk"}
                      /\ trace[i + 1] = "risk" => ~state.critic_report.veto)
    /\ [][(pc = "body" /\ current = "critic" /\ pc' = "edge")
            => IF state'.critic_report.veto
               THEN IF state.retry_count < state.max_retries
                    THEN /\ state'.retry_count = state.retry_count + 1
                         /\ Len(state'.logs) = Len(state.logs) + 2
                         /\ state'.logs[Len(state.logs) + 1] = "Critic vetoed; retrying executor"
                         /\ state'.failure_reason = Null
                    ELSE /\ state'.retry_count = state.retry_count
                         /\ state'.failure_reason = MaxRetriesExceeded
               ELSE /\ state'.retry_count = state.retry_count
                    /\ state'.failure_reason = Null]_vars

\* Both gates are open: the latest Critic report does not veto and the
\* RiskManager's report passes.
GatesPassed ==
    /\ state.critic_report # EmptyDict
    /\ ~state.critic_report.veto
    /\ state.risk_report # EmptyDict
    /\ state.risk_report.status = "pass"

\* C26: the Approval body has executed (awaiting_approval or human_approval
\* set) only if the latest Critic report has veto = false and the risk report
\* has status "pass"; a run that ended done passed both gates; the
\* RiskManager body has run only after a Critic report that does not veto.
C26_Gating ==
    /\ (Count(trace, "approval") > 0 \/ state.awaiting_approval \/ state.human_approval)
          => GatesPassed
    /\ decision = "done" => (GatesPassed /\ state.human_approval)
    /\ Count(trace, "risk") > 0
          => /\ state.critic_report # EmptyDict
             /\ ~state.critic_report.veto
             /\ state.risk_report # EmptyDict
    /\ Count(trace, "risk") <= 1
    /\ Count(trace, "approval") <= 1

\* A run that was vetoed once, then passed the Critic and the RiskManager,
\* was approved and ended done.
C26_Witness ==
    /\ pc = "returned"
    /\ decision = "done"
    /\ vetoes >= 1
    /\ GatesPassed
    /\ Count(trace, "approval") = 1

\* C24: a pause signal or an approval decision written for one run affects
\* that run only: a second run, for which the operator wrote nothing, sees no
\* pause signal and no approval decision, and is neither paused by the
\* operator, nor approved, nor rejected.
C24_RunsIsolated ==
    (first # NoFirst)
        => /\ pauseObservedAt = ""
           /\ approvalRead \in {"", "absent"}
           /\ decision # "done"
           /\ ~state.human_approval
           /\ state.failure_reason \notin {PausedByOperator, RejectedByHuman}

\* C27: for the same hypothesis, max_retries, pause signal, approval decision
\* and policy verdicts, run_graph and research_flow execute the same sequence
\* of node bodies, end with equal final states and both return or both raise
\* the same error.
C27_EnginesEquivalent ==
    ( /\ first # NoFirst
      /\ Halted
      /\ first.state.executor_artifacts = state.executor_artifacts )
        => /\ trace = first.trace
           /\ state = first.state
           /\ pc = first.pc
           /\ exception = first.exception
           /\ decision = first.decision

\* --------------------------------------------------------------- append-only
IsPrefix(a, b) == Len(a) <= Len(b) /\ SubSeq(b, 1, Len(a)) = a

\* C31: messages and logs are append-only and hypothesis is immutable: every
\* step of a run (each node execution, retries included) leaves the messages
\* and logs it found as prefixes of the ones it leaves, and never changes
\* hypothesis, which in every reachable state is the value given at creation
\* (the one the LangGraph entry point recorded as the user message).
C31_AppendOnly ==
    /\ [](/\ state.hypothesis \in Hypotheses
          /\ engine = "langgraph" =>
                /\ Len(state.messages) >= 1
                /\ state.messages[1] =
                      [role |-> "user", content |-> state.hypothesis])
    /\ [][/\ IsPrefix(state.messages, state'.messages)
          /\ IsPrefix(state.logs, state'.logs)
          /\ state'.hypothesis = state.hypothesis]_vars

\* A run that went through a retry and ended, with both sequences grown by
\* several nodes.
C31_Witness ==
    /\ Halted
    /\ state.retry_count >= 1
    /\ Count(trace, "executor") >= 2
    /\ Len(state.logs) >= 4
    /\ MessagesBy("executor") >= 2

====
